---- MODULE Spec2Model ----
(***************************************************************************)
(* Model of goki/ki's runtime conversion engine (kit/convert.go) and of    *)
(* the kit.Type (de)serialization wrapper.                                 *)
(*                                                                         *)
(* A text is a sequence of one-character strings.  Integers keep their Go  *)
(* width and signedness, scaled: a Go byte is ByteBits wide here and every *)
(* other width is the same multiple of it as in Go (int64 = 8 bytes).      *)
(* A float is a binary fixed-point number counted in units of              *)
(* 2^-FracBits64; a float32 has one fraction bit less than a float64.      *)
(***************************************************************************)
EXTENDS Integers, Sequences, FiniteSets

\* ------------------------------------------------------------------ bounds
ByteBits == 2
FracBits64 == 2
MaxPtr == 2

\* ------------------------------------------------------------------ helpers
RECURSIVE Pow(_, _)
Pow(b, n) == IF n = 0 THEN 1 ELSE b * Pow(b, n - 1)

Abs(x) == IF x < 0 THEN 0 - x ELSE x

\* ------------------------------------------------------------------ reflect.Kind
\* reflect.Kind in declaration order; KindNum is the Kind's numeric value.
KindNames == <<"Bool", "Int", "Int8", "Int16", "Int32", "Int64",
               "Uint", "Uint8", "Uint16", "Uint32", "Uint64", "Uintptr",
               "Float32", "Float64", "Complex64", "Complex128",
               "Array", "Chan", "Func", "Interface", "Map", "Ptr", "Slice",
               "String", "Struct", "UnsafePointer">>

AllKinds == {"Invalid"} \cup {KindNames[i] : i \in 1..Len(KindNames)}

KindNums == [x \in AllKinds |->
                IF x = "Invalid" THEN 0
                ELSE CHOOSE i \in 1..Len(KindNames) : KindNames[i] = x]
KindNum(vk) == KindNums[vk]

KindIn(vk, lo, hi) == KindNum(vk) >= KindNum(lo) /\ KindNum(vk) <= KindNum(hi)

\* KindIsBasic, convert.go:46
KindIsBasic(vk) == IF KindIn(vk, "Bool", "Complex128") THEN TRUE ELSE FALSE

SignedKinds == {"Int", "Int8", "Int16", "Int32", "Int64"}
UnsignedKinds == {"Uint", "Uint8", "Uint16", "Uint32", "Uint64", "Uintptr"}
FloatKinds == {"Float32", "Float64"}
ComplexKinds == {"Complex64", "Complex128"}
NilableKinds == {"Chan", "Func", "Interface", "Map", "Slice"}

\* ------------------------------------------------------------------ integers
\* Width in bits of an integer kind (int, uint and uintptr are 64-bit).
Bits(vk) == CASE vk \in {"Int8", "Uint8"} -> ByteBits
              [] vk \in {"Int16", "Uint16"} -> 2 * ByteBits
              [] vk \in {"Int32", "Uint32"} -> 4 * ByteBits
              [] OTHER -> 8 * ByteBits

MaxInt64 == Pow(2, 8 * ByteBits - 1) - 1
MinInt64 == 0 - Pow(2, 8 * ByteBits - 1)
MaxUint64 == Pow(2, 8 * ByteBits) - 1

MinOf(vk) == IF vk \in SignedKinds THEN 0 - Pow(2, Bits(vk) - 1) ELSE 0
MaxOf(vk) == IF vk \in SignedKinds THEN Pow(2, Bits(vk) - 1) - 1
             ELSE Pow(2, Bits(vk)) - 1

\* Go's integer conversion T(n): n modulo 2^w, two's complement when signed.
Narrow(n, vk) ==
    LET m == Pow(2, Bits(vk))
        r == n % m
    IN IF vk \in SignedKinds /\ r >= m \div 2 THEN r - m ELSE r

\* ------------------------------------------------------------------ texts
DecDigits == <<"0", "1", "2", "3", "4", "5", "6", "7", "8", "9">>
HexDigits == DecDigits \o <<"a", "b", "c", "d", "e", "f">>
HexUpper == <<"A", "B", "C", "D", "E", "F">>

\* value of a digit character, or 99 when it is not one (strconv.ParseUint)
DigitVal(c) ==
    IF \E i \in 1..16 : HexDigits[i] = c
    THEN (CHOOSE i \in 1..16 : HexDigits[i] = c) - 1
    ELSE IF \E i \in 1..6 : HexUpper[i] = c
    THEN (CHOOSE i \in 1..6 : HexUpper[i] = c) + 9
    ELSE 99

Lower(c) == IF \E i \in 1..6 : HexUpper[i] = c
            THEN HexDigits[10 + (CHOOSE i \in 1..6 : HexUpper[i] = c)]
            ELSE IF c = "X" THEN "x" ELSE IF c = "O" THEN "o" ELSE c

RECURSIVE FormatNat(_, _)
FormatNat(n, base) ==
    IF n < base THEN <<HexDigits[n + 1]>>
    ELSE FormatNat(n \div base, base) \o <<HexDigits[(n % base) + 1]>>

\* strconv.FormatInt(i, 10) and strconv.FormatUint(u, 10)
FormatInt(i) == IF i < 0 THEN <<"-">> \o FormatNat(0 - i, 10) ELSE FormatNat(i, 10)
FormatUint(u) == FormatNat(u, 10)
\* fmt.Sprintf("%#x", u)
FormatHex(u) == <<"0", "x">> \o FormatNat(u, 16)
\* strconv.FormatBool
FormatBool(b) == IF b THEN <<"t", "r", "u", "e">> ELSE <<"f", "a", "l", "s", "e">>

\* ParseBool accepting the two canonical literals only
ParseBool_Canonical(str) ==
    IF str = <<"t", "r", "u", "e">> THEN [val |-> TRUE, ok |-> TRUE]
    ELSE IF str = <<"f", "a", "l", "s", "e">> THEN [val |-> FALSE, ok |-> TRUE]
    ELSE [val |-> FALSE, ok |-> FALSE]

\* strconv.ParseBool: the result and whether err == nil
ParseBool(str) ==
    IF str \in {<<"1">>, <<"t">>, <<"T">>, <<"T", "R", "U", "E">>,
                <<"t", "r", "u", "e">>, <<"T", "r", "u", "e">>}
    THEN [val |-> TRUE, ok |-> TRUE]
    ELSE IF str \in {<<"0">>, <<"f">>, <<"F">>, <<"F", "A", "L", "S", "E">>,
                     <<"f", "a", "l", "s", "e">>, <<"F", "a", "l", "s", "e">>}
    THEN [val |-> FALSE, ok |-> TRUE]
    ELSE [val |-> FALSE, ok |-> FALSE]

\* digit loop of strconv.ParseUint(s, base, 64): -1 on a syntax error,
\* -2 on a range error, the value otherwise
RECURSIVE ParseDigits(_, _, _)
ParseDigits(s, base, n) ==
    IF s = <<>> THEN n
    ELSE IF DigitVal(Head(s)) >= base THEN -1
    ELSE IF n * base + DigitVal(Head(s)) > MaxUint64 THEN -2
    ELSE ParseDigits(Tail(s), base, n * base + DigitVal(Head(s)))

\* strconv.ParseUint(s, 0, 64) (texts with '_' are not in the alphabet)
ParseUint0(s) ==
    IF s = <<>> THEN -1
    ELSE IF Head(s) = "0"
    THEN IF Len(s) >= 3 /\ Lower(s[2]) = "b" THEN ParseDigits(Tail(Tail(s)), 2, 0)
         ELSE IF Len(s) >= 3 /\ Lower(s[2]) = "o" THEN ParseDigits(Tail(Tail(s)), 8, 0)
         ELSE IF Len(s) >= 3 /\ Lower(s[2]) = "x" THEN ParseDigits(Tail(Tail(s)), 16, 0)
         ELSE ParseDigits(Tail(s), 8, 0)
    ELSE ParseDigits(s, 10, 0)

\* ParseInt called with bit size 32 instead of 64
ParseInt_32(s) ==
    IF s = <<>> THEN [val |-> 0, ok |-> FALSE]
    ELSE LET neg == Head(s) = "-"
             un == ParseUint0(IF Head(s) \in {"+", "-"} THEN Tail(s) ELSE s)
         IN IF un < 0 \/ un > Pow(2, 4 * ByteBits - 1) \/ (~neg /\ un = Pow(2, 4 * ByteBits - 1))
            THEN [val |-> 0, ok |-> FALSE]
            ELSE [val |-> IF neg THEN 0 - un ELSE un, ok |-> TRUE]

\* strconv.ParseInt(s, 0, 64): the result and whether err == nil
ParseInt(s) ==
    IF s = <<>> THEN [val |-> 0, ok |-> FALSE]
    ELSE LET neg == Head(s) = "-"
             s1 == IF Head(s) \in {"+", "-"} THEN Tail(s) ELSE s
             un == ParseUint0(s1)
         IN IF un < 0 THEN [val |-> 0, ok |-> FALSE]
            ELSE IF ~neg /\ un >= MaxInt64 + 1 THEN [val |-> 0, ok |-> FALSE]
            ELSE IF neg /\ un > MaxInt64 + 1 THEN [val |-> 0, ok |-> FALSE]
            ELSE [val |-> IF neg THEN 0 - un ELSE un, ok |-> TRUE]

\* ------------------------------------------------------------------ floats
FracBits32 == FracBits64 - 1
FloatUnit == Pow(2, FracBits64)

\* x / d rounded to the nearest integer, ties to even (IEEE rounding)
RoundDiv(x, d) ==
    LET a == Abs(x)
        fl == a \div d
        r == a % d
        up == IF 2 * r > d THEN fl + 1
              ELSE IF 2 * r < d THEN fl
              ELSE IF fl % 2 = 0 THEN fl ELSE fl + 1
    IN IF x < 0 THEN 0 - up ELSE up

\* float32(f): the nearest value with FracBits32 fraction bits
Float32Of(f) == 2 * RoundDiv(f, 2)
\* float64(i) and int64(f) (truncation toward zero)
FloatOfInt(i) == i * FloatUnit
IntOfFloat(f) == IF f < 0 THEN 0 - ((0 - f) \div FloatUnit) ELSE f \div FloatUnit

RECURSIVE NatDigits(_)
NatDigits(n) == IF n < 10 THEN <<n>> ELSE NatDigits(n \div 10) \o <<n % 10>>

RECURSIVE TrimZeros(_)
TrimZeros(d) == IF d # <<>> /\ d[Len(d)] = 0
                THEN TrimZeros(SubSeq(d, 1, Len(d) - 1)) ELSE d

\* strconv's decimal: the digits d[1..nd] and the decimal point position dp,
\* the value being 0.d1d2... * 10^dp
Decimal(f) ==
    IF f = 0 THEN [d |-> <<>>, dp |-> 0]
    ELSE LET all == NatDigits(Abs(f) * Pow(5, FracBits64))
         IN [d |-> TrimZeros(all), dp |-> Len(all) - FracBits64]

RECURSIVE RoundUp(_, _)
RoundUp(a, nd) ==
    IF nd = 0 THEN [d |-> <<1>>, dp |-> a.dp + 1]
    ELSE IF a.d[nd] < 9
    THEN [d |-> SubSeq(a.d, 1, nd - 1) \o <<a.d[nd] + 1>>, dp |-> a.dp]
    ELSE RoundUp(a, nd - 1)

RoundDown(a, nd) ==
    LET t == TrimZeros(SubSeq(a.d, 1, nd))
    IN [d |-> t, dp |-> IF t = <<>> THEN 0 ELSE a.dp]

\* decimal.Round(nd): round to nd digits, an exact half to even
DecRound(a, nd) ==
    IF nd < 0 \/ nd >= Len(a.d) THEN a
    ELSE LET up == IF nd + 1 = Len(a.d) /\ a.d[nd + 1] = 5
                   THEN nd > 0 /\ a.d[nd] % 2 # 0
                   ELSE a.d[nd + 1] >= 5
         IN IF up THEN RoundUp(a, nd) ELSE RoundDown(a, nd)

DigitText(d) == [i \in 1..Len(d) |-> DecDigits[d[i] + 1]]
Zeros(n) == [i \in 1..n |-> "0"]

\* strconv's %e: d.ddddE+dd
FmtE(neg, a, prec) ==
    LET nd == Len(a.d)
        m == IF nd < prec + 1 THEN nd ELSE prec + 1
        exp == IF nd = 0 THEN 0 ELSE a.dp - 1
        ex == NatDigits(Abs(exp))
    IN (IF neg THEN <<"-">> ELSE <<>>)
       \o (IF nd = 0 THEN <<"0">> ELSE <<DecDigits[a.d[1] + 1]>>)
       \o (IF prec > 0
           THEN <<".">> \o DigitText(SubSeq(a.d, 2, m))
                \o Zeros(prec + 1 - (IF m < 1 THEN 1 ELSE m))
           ELSE <<>>)
       \o <<"E", IF exp < 0 THEN "-" ELSE "+">>
       \o (IF Len(ex) < 2 THEN <<"0">> ELSE <<>>) \o DigitText(ex)

\* strconv's %f: ddddd.ddd
FmtF(neg, a, prec) ==
    LET nd == Len(a.d)
        m == IF nd < a.dp THEN nd ELSE a.dp
    IN (IF neg THEN <<"-">> ELSE <<>>)
       \o (IF a.dp > 0 THEN DigitText(SubSeq(a.d, 1, m)) \o Zeros(a.dp - m)
           ELSE <<"0">>)
       \o (IF prec > 0
           THEN <<".">> \o [i \in 1..prec |->
                    IF a.dp + i >= 1 /\ a.dp + i <= nd
                    THEN DecDigits[a.d[a.dp + i] + 1] ELSE "0"]
           ELSE <<>>)

\* %e or %f of the rounded decimal, as strconv's 'G' chooses between them
FormatDecimal(neg, a, shortest, p) ==
    IF a.dp - 1 < -4
       \/ a.dp - 1 >= (IF shortest THEN 6
                       ELSE IF p > Len(a.d) /\ Len(a.d) >= a.dp THEN Len(a.d) ELSE p)
    THEN FmtE(neg, a, (IF shortest \/ p > Len(a.d) THEN Len(a.d) ELSE p) - 1)
    ELSE FmtF(neg, a, IF Len(a.d) - a.dp > 0 THEN Len(a.d) - a.dp ELSE 0)

\* strconv.FormatFloat(f, 'G', prec, 64); prec = -1 is the shortest text
FormatFloat(f, prec) ==
    IF prec < 0 THEN FormatDecimal(f < 0, Decimal(f), TRUE, 0)
    ELSE FormatDecimal(f < 0, DecRound(Decimal(f), IF prec = 0 THEN 1 ELSE prec),
                       FALSE, IF prec = 0 THEN 1 ELSE prec)

IsDec(c) == DigitVal(c) < 10

RECURSIVE DecPrefix(_)
DecPrefix(s) == IF s # <<>> /\ IsDec(Head(s)) THEN <<Head(s)>> \o DecPrefix(Tail(s))
                ELSE <<>>

RECURSIVE DecValue(_, _)
DecValue(s, n) == IF s = <<>> THEN n ELSE DecValue(Tail(s), 10 * n + DigitVal(Head(s)))

IsNeg(s) == s # <<>> /\ Head(s) = "-"
Unsigned(s) == IF s # <<>> /\ Head(s) \in {"+", "-"} THEN Tail(s) ELSE s
AfterPrefix(s) == SubSeq(s, Len(DecPrefix(s)) + 1, Len(s))

\* the exponent part of a float text: E, a sign, digits, and what follows
ExpPart(s) ==
    IF s # <<>> /\ Lower(Head(s)) = "e"
    THEN [has |-> TRUE, neg |-> IsNeg(Tail(s)),
          ep |-> DecPrefix(Unsigned(Tail(s))), rest |-> AfterPrefix(Unsigned(Tail(s)))]
    ELSE [has |-> FALSE, neg |-> FALSE, ep |-> <<>>, rest |-> s]

\* mant * 10^e10 as the nearest float with frac fraction bits
DecToFloat(mant, e10, frac) ==
    IF e10 >= 0 THEN mant * Pow(10, e10) * Pow(2, frac)
    ELSE RoundDiv(mant * Pow(2, frac), Pow(10, 0 - e10))

ParseFloatValue(neg, md, nfrac, e, frac) ==
    IF md = <<>> \/ (e.has /\ e.ep = <<>>) \/ e.rest # <<>>
    THEN [val |-> 0, ok |-> FALSE]
    ELSE [val |-> (IF neg THEN -1 ELSE 1) * Pow(2, FracBits64 - frac)
                  * DecToFloat(DecValue(md, 0),
                               (IF e.neg THEN -1 ELSE 1) * DecValue(e.ep, 0) - nfrac,
                               frac),
          ok |-> TRUE]

ParseFloatFrac(neg, ip, s, frac) ==
    IF s # <<>> /\ Head(s) = "."
    THEN ParseFloatValue(neg, ip \o DecPrefix(Tail(s)), Len(DecPrefix(Tail(s))),
                         ExpPart(AfterPrefix(Tail(s))), frac)
    ELSE ParseFloatValue(neg, ip, 0, ExpPart(s), frac)

\* strconv.ParseFloat(s, bits) for decimal texts [sign]digits[.digits][E[sign]digits]
\* (no "inf"/"nan"/hexadecimal spellings in the alphabet): the nearest float
\* of the given fraction width and whether err == nil
ParseFloatBits(s, frac) ==
    ParseFloatFrac(IsNeg(s), DecPrefix(Unsigned(s)), AfterPrefix(Unsigned(s)), frac)

ParseFloat64(s) == ParseFloatBits(s, FracBits64)
ParseFloat32(s) == ParseFloatBits(s, FracBits32)

\* ------------------------------------------------------------------ dynamic values
(***************************************************************************)
(* A dynamic value (Go's `any`) is a record:                               *)
(*   kind, named, elem  the type under the pointers: its reflect.Kind,     *)
(*                      whether it is a defined type (type MyInt int) and, *)
(*                      for a slice, the element kind;                     *)
(*   ptr, nilAt, addr   the number of pointer levels around it, the level  *)
(*                      (1 = outermost) holding a nil pointer or 0, and    *)
(*                      the address a pointer, func or chan prints as;     *)
(*   isnil              a nil map, slice, func or chan;                    *)
(*   b, n, im, s        the value: a bool; an integer, a float, the real   *)
(*                      part, or what identifies a func, a chan or the     *)
(*                      content of a composite; the imaginary part; a text *)
(*                      or the bytes of a []byte;                          *)
(*   caps, capS, capI, capF, nilRecv                                       *)
(*                      the capability interfaces in the method set of the *)
(*                      dynamic type, what String(), Int() and Float()     *)
(*                      report, and whether a method called on a nil       *)
(*                      receiver returns ("ok") or panics ("panic").       *)
(* The untyped nil is the value of kind "Invalid".                         *)
(***************************************************************************)
Zero == [kind |-> "Invalid", named |-> FALSE, elem |-> "Invalid",
         ptr |-> 0, nilAt |-> 0, addr |-> 0, isnil |-> FALSE,
         b |-> FALSE, n |-> 0, im |-> 0, s |-> <<>>,
         caps |-> {}, capS |-> <<>>, capI |-> 0, capF |-> 0, nilRecv |-> "ok"]

UntypedNil == Zero

\* reflect.ValueOf(it).Kind()
ValueKind(it) == IF it.ptr > 0 THEN "Ptr" ELSE it.kind

\* IfaceIsNil, convert.go:33
IfaceIsNil(it) ==
    IF it.kind = "Invalid" /\ it.ptr = 0 THEN TRUE
    ELSE IF ValueKind(it) \in {"Ptr", "Interface", "Map", "Slice", "Func", "Chan"}
    THEN IF it.ptr > 0 THEN it.nilAt = 1 ELSE it.isnil
    ELSE FALSE

\* NonPtrValue(reflect.ValueOf(it)).Kind(): the kind after dereferencing every
\* pointer level; Invalid (the zero reflect.Value) when a level is nil
NonPtrKind(it) == IF it.nilAt > 0 THEN "Invalid" ELSE it.kind

\* a result: the converted value (b, n or s by target), the ok flag, and
\* whether the call panicked instead of returning
Ret(b, n, s, ok) == [b |-> b, n |-> n, s |-> s, ok |-> ok, panic |-> FALSE]
Panic == [b |-> FALSE, n |-> 0, s |-> <<>>, ok |-> FALSE, panic |-> TRUE]
RetBool(b, ok) == Ret(b, 0, <<>>, ok)
RetNum(n, ok) == Ret(FALSE, n, <<>>, ok)
RetStr(s) == Ret(FALSE, 0, s, TRUE)

\* a case of the leading type switch: the exact predeclared type by value, or
\* one pointer to it
FastMatch(it, byValue, byPtr) ==
    /\ ~it.named
    /\ \/ it.ptr = 0 /\ it.kind \in byValue
       \/ it.ptr = 1 /\ it.kind \in byPtr
\* *bt on a matched pointer case
FastNilDeref(it) == it.ptr = 1 /\ it.nilAt = 1

\* a method of a capability interface called on the value
MethodPanics(it) == IfaceIsNil(it) /\ it.nilRecv = "panic"

\* ------------------------------------------------------------------ ToBool
ToBoolFastValue == {"Bool", "Int", "Int32", "Int64", "Uint8", "Float64", "Float32", "String"}
ToBoolFastPtr == {"Bool", "Int", "Float64", "Float32", "String"}

\* ToBool, convert.go:90
ToBool(it) ==
    IF FastMatch(it, ToBoolFastValue, ToBoolFastPtr)
    THEN IF FastNilDeref(it) THEN Panic
         ELSE IF it.kind = "Bool" THEN RetBool(it.b, TRUE)
         ELSE IF it.kind = "String"
         THEN LET r == ParseBool(it.s)
              IN IF ~r.ok THEN RetBool(FALSE, FALSE) ELSE RetBool(r.val, TRUE)
         ELSE RetBool(it.n # 0, TRUE)
    ELSE IF IfaceIsNil(it) THEN RetBool(FALSE, FALSE)
    ELSE LET vk == NonPtrKind(it)
         IN CASE KindIn(vk, "Int", "Int64") -> RetBool(it.n # 0, TRUE)
              [] KindIn(vk, "Uint", "Uint64") -> RetBool(it.n # 0, TRUE)
              [] vk = "Bool" -> RetBool(it.b, TRUE)
              [] KindIn(vk, "Float32", "Float64") -> RetBool(it.n # 0, TRUE)
              [] KindIn(vk, "Complex64", "Complex128") -> RetBool(it.n # 0, TRUE)
              [] vk = "String" ->
                   LET r == ParseBool(it.s)
                   IN IF ~r.ok THEN RetBool(FALSE, FALSE) ELSE RetBool(r.val, TRUE)
              [] OTHER -> RetBool(FALSE, FALSE)

\* ------------------------------------------------------------------ ToInt
NumFast == {"Bool", "Int", "Int32", "Int64", "Uint8", "Float64", "Float32", "String"}

BoolInt(b) == IF b THEN 1 ELSE 0

\* ToInt, convert.go:160
ToInt(it) ==
    IF FastMatch(it, NumFast, NumFast)
    THEN IF FastNilDeref(it) THEN Panic
         ELSE IF it.kind = "Bool" THEN RetNum(BoolInt(it.b), TRUE)
         ELSE IF it.kind \in FloatKinds THEN RetNum(IntOfFloat(it.n), TRUE)
         ELSE IF it.kind = "String"
         THEN LET r == ParseInt(it.s)
              IN IF ~r.ok THEN RetNum(0, FALSE) ELSE RetNum(r.val, TRUE)
         ELSE RetNum(it.n, TRUE)
    ELSE IF IfaceIsNil(it) THEN RetNum(0, FALSE)
    ELSE IF "Inter" \in it.caps THEN RetNum(it.capI, TRUE)
    ELSE LET vk == NonPtrKind(it)
         IN CASE KindIn(vk, "Int", "Int64") -> RetNum(it.n, TRUE)
              [] KindIn(vk, "Uint", "Uint64") -> RetNum(Narrow(it.n, "Int64"), TRUE)
              [] vk = "Bool" -> RetNum(BoolInt(it.b), TRUE)
              [] KindIn(vk, "Float32", "Float64") -> RetNum(IntOfFloat(it.n), TRUE)
              [] KindIn(vk, "Complex64", "Complex128") -> RetNum(IntOfFloat(it.n), TRUE)
              [] vk = "String" ->
                   LET r == ParseInt(it.s)
                   IN IF ~r.ok THEN RetNum(0, FALSE) ELSE RetNum(r.val, TRUE)
              [] OTHER -> RetNum(0, FALSE)

\* ------------------------------------------------------------------ ToFloat
\* ToFloat, convert.go:248
ToFloat(it) ==
    IF FastMatch(it, NumFast, NumFast)
    THEN IF FastNilDeref(it) THEN Panic
         ELSE IF it.kind = "Bool" THEN RetNum(FloatOfInt(BoolInt(it.b)), TRUE)
         ELSE IF it.kind \in FloatKinds THEN RetNum(it.n, TRUE)
         ELSE IF it.kind = "String"
         THEN LET r == ParseFloat64(it.s)
              IN IF ~r.ok THEN RetNum(0, FALSE) ELSE RetNum(r.val, TRUE)
         ELSE RetNum(FloatOfInt(it.n), TRUE)
    ELSE IF "Floater" \in it.caps
    THEN IF MethodPanics(it) THEN Panic ELSE RetNum(it.capF, TRUE)
    ELSE IF IfaceIsNil(it) THEN RetNum(0, FALSE)
    ELSE LET vk == NonPtrKind(it)
         IN CASE KindIn(vk, "Int", "Int64") -> RetNum(FloatOfInt(it.n), TRUE)
              [] KindIn(vk, "Uint", "Uint64") -> RetNum(FloatOfInt(it.n), TRUE)
              [] vk = "Bool" -> RetNum(FloatOfInt(BoolInt(it.b)), TRUE)
              [] KindIn(vk, "Float32", "Float64") -> RetNum(it.n, TRUE)
              [] KindIn(vk, "Complex64", "Complex128") -> RetNum(it.n, TRUE)
              [] vk = "String" ->
                   LET r == ParseFloat64(it.s)
                   IN IF ~r.ok THEN RetNum(0, FALSE) ELSE RetNum(r.val, TRUE)
              [] OTHER -> RetNum(0, FALSE)

\* ToFloat32, convert.go:336
ToFloat32(it) ==
    IF FastMatch(it, NumFast, NumFast)
    THEN IF FastNilDeref(it) THEN Panic
         ELSE IF it.kind = "Bool" THEN RetNum(FloatOfInt(BoolInt(it.b)), TRUE)
         ELSE IF it.kind \in FloatKinds THEN RetNum(Float32Of(it.n), TRUE)
         ELSE IF it.kind = "String"
         THEN LET r == ParseFloat32(it.s)
              IN IF ~r.ok THEN RetNum(0, FALSE) ELSE RetNum(Float32Of(r.val), TRUE)
         ELSE RetNum(Float32Of(FloatOfInt(it.n)), TRUE)
    ELSE IF "Floater" \in it.caps
    THEN IF MethodPanics(it) THEN Panic ELSE RetNum(Float32Of(it.capF), TRUE)
    ELSE IF IfaceIsNil(it) THEN RetNum(0, FALSE)
    ELSE LET vk == NonPtrKind(it)
         IN CASE KindIn(vk, "Int", "Int64") -> RetNum(Float32Of(FloatOfInt(it.n)), TRUE)
              [] KindIn(vk, "Uint", "Uint64") -> RetNum(Float32Of(FloatOfInt(it.n)), TRUE)
              [] vk = "Bool" -> RetNum(FloatOfInt(BoolInt(it.b)), TRUE)
              [] KindIn(vk, "Float32", "Float64") -> RetNum(Float32Of(it.n), TRUE)
              [] KindIn(vk, "Complex64", "Complex128") -> RetNum(Float32Of(it.n), TRUE)
              [] vk = "String" ->
                   LET r == ParseFloat32(it.s)
                   IN IF ~r.ok THEN RetNum(0, FALSE) ELSE RetNum(Float32Of(r.val), TRUE)
              [] OTHER -> RetNum(0, FALSE)

\* ------------------------------------------------------------------ ToString
StrFast == {"String", "Bool", "Int", "Int32", "Int64", "Uint8", "Float64", "Float32", "Uintptr"}

\* SliceElType(it).Kind(): the element kind of the slice under the pointers
SliceElType(it) == it.elem

\* fmt.Sprintf("%v", it) for the values that reach the default case: a
\* uintptr in decimal, a pointer to a composite as & and the composite, any
\* other pointer, a func or a chan as its address, composites by their content
SprintfV(it) ==
    LET body == CASE it.kind = "Uintptr" -> FormatUint(it.n)
                  [] it.kind = "Struct" -> <<"{">> \o FormatInt(it.n) \o <<"}">>
                  [] it.kind \in {"Slice", "Array"} ->
                       <<"[">> \o (IF it.isnil THEN <<>>
                                   ELSE IF it.elem = "Uint8"
                                   THEN <<"b">> \o it.s ELSE FormatInt(it.n)) \o <<"]">>
                  [] it.kind = "Map" ->
                       <<"m", "a", "p", "[">>
                       \o (IF it.isnil THEN <<>> ELSE FormatInt(it.n)) \o <<"]">>
                  [] it.kind = "Invalid" -> <<"<", "n", "i", "l", ">">>
                  [] OTHER -> IF it.isnil THEN <<"<", "n", "i", "l", ">">>
                              ELSE FormatHex(it.n)
    IN IF it.ptr = 0 THEN body
       ELSE IF it.nilAt = 1 THEN <<"<", "n", "i", "l", ">">>
       ELSE IF it.ptr = 1 /\ it.kind \in {"Struct", "Slice", "Array", "Map"}
       THEN <<"&">> \o body
       ELSE FormatHex(it.addr)

\* the reflective fallback shared by ToString (prec = -1) and ToStringPrec
StringOfKind(it, prec) ==
    LET vk == NonPtrKind(it)
    IN CASE KindIn(vk, "Int", "Int64") -> RetStr(FormatInt(it.n))
         [] KindIn(vk, "Uint", "Uint64") -> RetStr(FormatUint(it.n))
         [] vk = "Bool" -> RetStr(FormatBool(it.b))
         [] KindIn(vk, "Float32", "Float64") -> RetStr(FormatFloat(it.n, prec))
         [] KindIn(vk, "Complex64", "Complex128") ->
              RetStr(FormatFloat(it.n, prec) \o <<",">> \o FormatFloat(it.im, prec))
         [] vk = "String" -> RetStr(it.s)
         [] vk = "Slice" /\ SliceElType(it) = "Uint8" ->
              \* it.([]byte) panics unless the dynamic type is exactly []byte
              IF it.ptr = 0 /\ ~it.named THEN RetStr(it.s) ELSE Panic
         [] OTHER -> RetStr(SprintfV(it))

\* ToString, convert.go:425
ToString(it) ==
    IF FastMatch(it, StrFast, StrFast)
    THEN IF FastNilDeref(it) THEN Panic
         ELSE CASE it.kind = "String" -> RetStr(it.s)
                [] it.kind = "Bool" -> RetStr(FormatBool(it.b))
                [] it.kind \in FloatKinds -> RetStr(FormatFloat(it.n, -1))
                [] it.kind = "Uintptr" -> RetStr(FormatHex(it.n))
                [] OTHER -> RetStr(FormatInt(it.n))
    ELSE IF "Stringer" \in it.caps
    THEN IF MethodPanics(it) THEN Panic ELSE RetStr(it.capS)
    ELSE IF IfaceIsNil(it) THEN RetStr(<<"n", "i", "l">>)
    ELSE StringOfKind(it, -1)

\* ToStringPrec going by the underlying kind without asking for a String method
ToStringPrec_NoProbe(it, prec) ==
    IF IfaceIsNil(it) THEN RetStr(<<"n", "i", "l">>) ELSE StringOfKind(it, prec)

\* ToStringPrec, convert.go:512
ToStringPrec(it, prec) ==
    IF IfaceIsNil(it) THEN RetStr(<<"n", "i", "l">>)
    ELSE IF "Stringer" \in it.caps THEN RetStr(it.capS)
    ELSE StringOfKind(it, prec)

\* ------------------------------------------------------------------ SetRobust
CompositeKinds == {"Array", "Chan", "Func", "Map", "Slice", "Struct"}

\* reflect.ValueOf(frm).Type().AssignableTo(typ), typ being the type of `to`
\* under its pointers: identical types, or identical underlying composite
\* types of which one is a type literal
AssignableTo(frm, to) ==
    /\ frm.ptr = 0
    /\ frm.kind = to.kind
    /\ frm.elem = to.elem
    /\ \/ frm.named = to.named
       \/ frm.kind \in CompositeKinds

\* NonPtrType(reflect.TypeOf(frm)).Kind(): "panic" for the untyped nil, whose
\* reflect.Type is nil
NonPtrTypeKind(frm) == IF frm.kind = "Invalid" THEN "panic" ELSE frm.kind

\* OnePtrValue(vnp).Elem().CanSet(): the destination is a variable reached
\* through a pointer
CanSet(to) == to.ptr >= 1

\* the outcome of SetRobust: the returned bool, whether it panicked instead,
\* and the destination after the call
SetRet(ret, cell) == [ret |-> ret, panic |-> FALSE, cell |-> cell]
SetPanic(cell) == [ret |-> FALSE, panic |-> TRUE, cell |-> cell]

\* vp.Elem().Set(v): the destination takes the value, keeps its type
StoreValue(to, v) == [to EXCEPT !.b = v.b, !.n = v.n, !.im = v.im, !.s = v.s,
                                !.isnil = v.isnil]

\* json.Unmarshal([]byte(text), to) for a struct, slice or map destination.
\* The texts of the model hold the JSON documents {} [] and null; every other
\* text is malformed or a JSON scalar, which such a destination rejects.
JSONUnmarshal(text, to) ==
    IF text = <<"n", "u", "l", "l">> THEN SetRet(TRUE, to)
    ELSE IF text = <<"{", "}">> /\ to.kind \in {"Struct", "Map"}
    THEN SetRet(TRUE, [to EXCEPT !.isnil = FALSE])
    ELSE IF text = <<"[", "]">> /\ to.kind = "Slice"
    THEN SetRet(TRUE, [to EXCEPT !.isnil = FALSE, !.n = 0, !.s = <<>>])
    ELSE SetRet(FALSE, to)

\* CopySliceRobust(to, frm) and CopyMapRobust(to, frm): the destination takes
\* the elements of a source of the same container kind; anything else is an
\* error
CopyRobust(to, frm) ==
    IF NonPtrKind(frm) = to.kind
    THEN SetRet(TRUE, [to EXCEPT !.isnil = frm.isnil, !.n = frm.n, !.s = frm.s])
    ELSE SetRet(FALSE, to)

\* the fallback storing the source before it looks at the types
SetDirect_StoreFirst(to, frm) ==
    IF frm.kind = "Invalid" /\ frm.ptr = 0 THEN SetPanic(to)
    ELSE SetRet(AssignableTo(frm, to), StoreValue(to, frm))

\* SetRobust lines 633-639: assign directly when the types allow it
SetDirect(to, frm) ==
    IF frm.kind = "Invalid" /\ frm.ptr = 0 THEN SetPanic(to)
    ELSE IF AssignableTo(frm, to) THEN SetRet(TRUE, StoreValue(to, frm))
    ELSE SetRet(FALSE, to)

\* the guard without the CanSet test
SetRobustRejects_NoCanSet(to) ==
    \/ IfaceIsNil(to)
    \/ NonPtrKind(to) = "Invalid"

\* SetRobust lines 552-566: the destination cannot be set
SetRobustRejects(to) ==
    \/ IfaceIsNil(to)
    \/ NonPtrKind(to) = "Invalid"
    \/ ~CanSet(to)

\* a complex destination reported as unsupported
SetComplex_Unsupported(to, frm) == SetRet(FALSE, to)

\* SetRobust lines 592-595: a complex destination has no conversion
SetComplex(to, frm) == SetDirect(to, frm)

\* SetRobust lines 600-631: struct, slice and map destinations
SetContainer(to, frm) ==
    LET fk == NonPtrTypeKind(frm)
    IN IF fk = "panic" THEN SetPanic(to)
       ELSE IF fk = "String"
       THEN LET str == ToString(frm)
            IN IF str.panic THEN SetPanic(to) ELSE JSONUnmarshal(str.s, to)
       ELSE IF to.kind = "Struct" THEN SetDirect(to, frm)
       ELSE CopyRobust(to, frm)

\* SetRobust, convert.go:551
SetRobust(to, frm) ==
    IF SetRobustRejects(to) THEN SetRet(FALSE, to)
    ELSE LET vk == NonPtrKind(to)
         IN CASE KindIn(vk, "Int", "Int64") \/ KindIn(vk, "Uint", "Uint64") ->
                   LET fm == ToInt(frm)
                   IN IF fm.panic THEN SetPanic(to)
                      ELSE IF fm.ok
                      THEN SetRet(TRUE, [to EXCEPT !.n = Narrow(fm.n, vk)])
                      ELSE SetDirect(to, frm)
              [] vk = "Bool" ->
                   LET fm == ToBool(frm)
                   IN IF fm.panic THEN SetPanic(to)
                      ELSE IF fm.ok THEN SetRet(TRUE, [to EXCEPT !.b = fm.b])
                      ELSE SetDirect(to, frm)
              [] KindIn(vk, "Float32", "Float64") ->
                   LET fm == ToFloat(frm)
                   IN IF fm.panic THEN SetPanic(to)
                      ELSE IF fm.ok
                      THEN SetRet(TRUE, [to EXCEPT !.n = IF vk = "Float32"
                                                         THEN Float32Of(fm.n)
                                                         ELSE fm.n])
                      ELSE SetDirect(to, frm)
              [] KindIn(vk, "Complex64", "Complex128") -> SetComplex(to, frm)
              [] vk = "String" ->
                   LET fm == ToString(frm)
                   IN IF fm.panic THEN SetPanic(to)
                      ELSE SetRet(TRUE, [to EXCEPT !.s = fm.s])
              [] vk \in {"Struct", "Slice", "Map"} -> SetContainer(to, frm)
              [] OTHER -> SetDirect(to, frm)

\* ------------------------------------------------------------------ inputs
\* integers of a kind: its extremes and the values around zero and around
\* the signed 64-bit maximum
IntSample(vk) ==
    {x \in {MinOf(vk), -1, 0, 1, 31, MaxInt64, MaxInt64 + 1, MaxOf(vk)} :
        x >= MinOf(vk) /\ x <= MaxOf(vk)}

\* floats, in units of 2^-FracBits64 (float32 values are even)
Float32Sample == {0, FloatUnit, 3 * (FloatUnit \div 2), 0 - 5 * (FloatUnit \div 2)}
Float64Sample == Float32Sample \cup {5 * (FloatUnit \div 4), 1234 * FloatUnit}

Texts ==
    {<<>>, <<"1">>, <<"0">>, <<"t">>, <<"T">>, <<"f">>, <<"F">>,
     <<"t", "r", "u", "e">>, <<"T", "r", "u", "e">>, <<"T", "R", "U", "E">>,
     <<"f", "a", "l", "s", "e">>, <<"F", "a", "l", "s", "e">>,
     <<"F", "A", "L", "S", "E">>, <<"y", "e", "s">>, <<"t", "R", "u", "e">>,
     <<"3", "1">>, <<"0", "x", "1", "F">>, <<"-", "5">>, <<"0", "1", "7">>,
     <<"1", ".", "5">>, <<"2", ".", "5", "E", "+", "0", "1">>,
     <<"a", "b", "c">>, <<"n", "i", "l">>, <<"n", "u", "l", "l">>,
     <<"{", "}">>, <<"[", "]">>,
     FormatUint(MaxInt64 + 1), FormatInt(MinInt64), FormatUint(MaxUint64)}

OfKind(vk) == [Zero EXCEPT !.kind = vk]
StringValue(str) == [Zero EXCEPT !.kind = "String", !.s = str]

\* the values of every kind, by value and of the predeclared or literal type
BaseValues ==
    {[OfKind("Bool") EXCEPT !.b = x] : x \in BOOLEAN}
    \cup UNION {{[OfKind(vk) EXCEPT !.n = x] : x \in IntSample(vk)} :
                  vk \in SignedKinds \cup UnsignedKinds}
    \cup {[OfKind("Float32") EXCEPT !.n = x] : x \in Float32Sample}
    \cup {[OfKind("Float64") EXCEPT !.n = x] : x \in Float64Sample}
    \cup {[OfKind(x[1]) EXCEPT !.n = x[2], !.im = x[3]] :
             x \in ComplexKinds \X {FloatUnit, 0} \X {0, 0 - 3 * (FloatUnit \div 2)}}
    \cup {StringValue(str) : str \in Texts}
    \cup {[OfKind("Slice") EXCEPT !.elem = "Uint8", !.s = x] : x \in {<<>>, <<"h", "i">>}}
    \cup {[OfKind("Slice") EXCEPT !.elem = "Uint8", !.isnil = TRUE],
          [OfKind("Slice") EXCEPT !.elem = "Int", !.isnil = TRUE],
          [OfKind("Slice") EXCEPT !.elem = "Int", !.n = 1],
          [OfKind("Map") EXCEPT !.isnil = TRUE], [OfKind("Map") EXCEPT !.n = 1],
          [OfKind("Func") EXCEPT !.isnil = TRUE], [OfKind("Func") EXCEPT !.n = 31],
          [OfKind("Chan") EXCEPT !.isnil = TRUE], [OfKind("Chan") EXCEPT !.n = 31],
          [OfKind("Struct") EXCEPT !.n = 0], [OfKind("Struct") EXCEPT !.n = 1],
          OfKind("Array")}

\* v behind p pointer levels, level z of them a nil pointer (z = 0: none);
\* a nil pointer has a type but no value under it
PointerTo(v, p, z, a) ==
    IF z = 0 THEN [v EXCEPT !.ptr = p, !.addr = a]
    ELSE [Zero EXCEPT !.kind = v.kind, !.named = v.named, !.elem = v.elem,
                      !.caps = v.caps, !.capS = v.capS, !.capI = v.capI,
                      !.capF = v.capF, !.nilRecv = v.nilRecv,
                      !.ptr = p, !.nilAt = z, !.addr = IF z = 1 THEN 0 ELSE a]

Pointers(v, maxp) ==
    {PointerTo(v, pz[1], pz[2], pz[3]) :
        pz \in {x \in (1..maxp) \X (0..maxp) \X {31, 48} :
                  x[2] <= x[1] /\ (x[3] = 31 => v.kind = "Uintptr")}}

Named(v) == [v EXCEPT !.named = TRUE]

\* a defined type with methods: the capabilities it implements and what they
\* report
CapSets == {{"Stringer"}, {"Inter"}, {"Floater"}, {"Booler"},
            {"Stringer", "Inter", "Floater", "Booler"}}

Capable(v) ==
    {[Named(v) EXCEPT !.caps = c, !.capS = <<"S", "!">>, !.capI = 7,
                      !.capF = 9 * (FloatUnit \div 2), !.nilRecv = r] :
        c \in CapSets, r \in {"ok", "panic"}}

CapBases ==
    {v \in BaseValues :
        \/ v.kind \in {"Bool", "Struct", "Map"}
        \/ v.kind \in {"Int", "Uint8", "Uintptr", "Float64", "Complex128"} /\ v.n = 1
        \/ v.kind = "String" /\ v.s \in {<<"t", "r", "u", "e">>, <<"3", "1">>}}

Values ==
    {UntypedNil}
    \cup BaseValues
    \cup UNION {Pointers(v, MaxPtr) : v \in BaseValues}
    \cup {Named(v) : v \in BaseValues}
    \cup UNION {Pointers(Named(v), 1) : v \in BaseValues}
    \cup UNION {Capable(v) : v \in CapBases}
    \cup UNION {UNION {Pointers(w, 1) : w \in Capable(v)} : v \in CapBases}

Precs == {-1, 0, 1, 2, 6}

\* destinations of SetRobust: one variable of every kind, plain (a constant or
\* temporary), behind pointers, behind nil pointers, and of a defined type
DestBases ==
    {v \in BaseValues :
        \/ v.kind \in SignedKinds \cup UnsignedKinds /\ v.n = 1
        \/ v.kind \in FloatKinds /\ v.n = FloatUnit
        \/ v.kind \in ComplexKinds /\ v.n = 0 /\ v.im = 0
        \/ v.kind = "Bool" /\ v.b
        \/ v.kind = "String" /\ v.s = <<"a", "b", "c">>
        \/ v.kind \in CompositeKinds /\ ~v.isnil /\ v.n # 0
        \/ v.kind = "Array"}

Dests ==
    {UntypedNil}
    \cup DestBases
    \cup UNION {Pointers(v, 1) : v \in DestBases}
    \cup UNION {Pointers(v, MaxPtr) :
                  v \in {w \in DestBases : w.kind \in {"Int", "Complex128", "String"}}}
    \cup UNION {Pointers(Named(v), 1) :
                  v \in {w \in DestBases :
                           w.kind \in {"Int8", "Bool", "Float32", "Complex128",
                                       "String", "Struct"}}}

\* sources of SetRobust: values of every kind, by value or behind one pointer
SourceTexts ==
    {<<"t", "r", "u", "e">>, <<"3", "1">>, <<"1", ".", "5">>, <<"a", "b", "c">>,
     <<"n", "u", "l", "l">>, <<"{", "}">>, <<"[", "]">>, FormatUint(MaxUint64)}

Sources ==
    {v \in Values :
        /\ v.ptr <= 1
        /\ v.addr # 31
        /\ v.kind \in SignedKinds \cup UnsignedKinds => v.n \in {-1, 0, 1, MaxOf(v.kind)}
        /\ v.kind = "String" => v.s \in SourceTexts \/ v.nilAt > 0
        /\ v.caps # {} => Cardinality(v.caps) > 1 \/ v.caps = {"Stringer"}}

\* ------------------------------------------------------------------ state
VARIABLES
    op,     \* the operation called last
    it,     \* its argument (the source of SetRobust)
    prec,   \* the precision given to ToStringPrec
    vk,     \* the kind given to KindIsBasic
    to,     \* the destination given to SetRobust, as it was before the call
    res,    \* what a conversion returned
    out,    \* what SetRobust returned and the destination after the call
    via,    \* the call whose returned text is the argument, "" for a fresh one
    src,    \* the argument of that call
    k,      \* the T field of a kit.Type wrapper
    k0,     \* the T field before the last operation on the wrapper
    wire,   \* the last serialized form of the wrapper
    err,    \* the error the last operation on the wrapper returned
    top,    \* the last operation on the wrapper
    rt      \* the last unmarshal read what the wrapper wrote last

convVars == <<op, it, prec, vk, to, res, out, via, src>>
typeVars == <<k, k0, wire, err, top, rt>>
vars == <<op, it, prec, vk, to, res, out, via, src, k, k0, wire, err, top, rt>>

NoRes == Ret(FALSE, 0, <<>>, FALSE)
NoOut == SetRet(FALSE, Zero)

\* A behaviour is one use of the library: a call on a fresh argument, then
\* calls on the text that the previous call returned.
Fresh == op = "none"

Called(name, v, isFed, p, r) ==
    /\ op' = name
    /\ it' = v
    /\ prec' = p
    /\ res' = r
    /\ via' = IF isFed THEN op ELSE ""
    /\ src' = IF isFed THEN it ELSE Zero
    /\ vk' = "Invalid"
    /\ to' = Zero
    /\ out' = NoOut
    /\ UNCHANGED typeVars

HasText == op \in {"ToString", "ToStringPrec"} /\ ~res.panic

CallToBool ==
    \/ Fresh /\ \E v \in Values : Called("ToBool", v, FALSE, -1, ToBool(v))
    \/ HasText /\ Called("ToBool", StringValue(res.s), TRUE, -1, ToBool(StringValue(res.s)))

CallToInt ==
    \/ Fresh /\ \E v \in Values : Called("ToInt", v, FALSE, -1, ToInt(v))
    \/ HasText /\ Called("ToInt", StringValue(res.s), TRUE, -1, ToInt(StringValue(res.s)))

CallToFloat ==
    \/ Fresh /\ \E v \in Values : Called("ToFloat", v, FALSE, -1, ToFloat(v))
    \/ HasText /\ Called("ToFloat", StringValue(res.s), TRUE, -1, ToFloat(StringValue(res.s)))

CallToFloat32 ==
    \/ Fresh /\ \E v \in Values : Called("ToFloat32", v, FALSE, -1, ToFloat32(v))
    \/ HasText /\ Called("ToFloat32", StringValue(res.s), TRUE, -1, ToFloat32(StringValue(res.s)))

CallToString ==
    Fresh /\ \E v \in Values : Called("ToString", v, FALSE, -1, ToString(v))

CallToStringPrec ==
    Fresh /\ \E v \in Values, p \in Precs : Called("ToStringPrec", v, FALSE, p, ToStringPrec(v, p))

CallKindIsBasic ==
    Fresh /\ \E kind \in AllKinds :
        /\ op' = "KindIsBasic"
        /\ vk' = kind
        /\ res' = RetBool(KindIsBasic(kind), TRUE)
        /\ it' = Zero /\ prec' = -1 /\ via' = "" /\ src' = Zero
        /\ to' = Zero /\ out' = NoOut
        /\ UNCHANGED typeVars

CallSetRobust ==
    Fresh /\ \E d \in Dests, f \in Sources :
        /\ op' = "SetRobust"
        /\ to' = d
        /\ it' = f
        /\ out' = SetRobust(d, f)
        /\ res' = NoRes /\ prec' = -1 /\ via' = "" /\ src' = Zero
        /\ vk' = "Invalid"
        /\ UNCHANGED typeVars

Init ==
    /\ op = "none" /\ it = Zero /\ prec = -1 /\ vk = "Invalid" /\ to = Zero
    /\ res = NoRes /\ out = NoOut /\ via = "" /\ src = Zero
    /\ k = "nil" /\ k0 = "nil" /\ err = "" /\ top = "none" /\ rt = FALSE
    /\ wire = [fmt |-> "", bytes |-> <<>>, toks |-> <<>>, from |-> "nil"]

Next ==
    \/ CallToBool
    \/ CallToInt
    \/ CallToFloat
    \/ CallToFloat32
    \/ CallToString
    \/ CallToStringPrec
    \/ CallKindIsBasic
    \/ CallSetRobust

Spec == Init /\ [][Next]_vars
\* ------------------------------------------------------------------ kit.Type
\* A type descriptor (reflect.Type) is named by a string; NoType is the nil
\* reflect.Type.  The registry kit.Types holds the descriptors of Registered
\* under their short package-qualified names.
NoType == "nil"
Descriptors == {"A", "B", "U"}
Registered == {"A", "B"}

\* Types.TypeName(t): package dir + "." + type name
TypeName(t) == CASE t = "A" -> <<"k", ".", "A">>
                 [] t = "B" -> <<"k", ".", "B">>
                 [] OTHER -> <<"m", ".", "U">>

\* Types.Type(name): the registered descriptor of that name, or nil
TypesType(name) ==
    IF \E t \in Registered : TypeName(t) = name
    THEN CHOOSE t \in Registered : TypeName(t) = name
    ELSE NoType

\* Type.ShortTypeName, part_000:23
ShortTypeName(kT) == TypeName(kT)

TextNull == <<"n", "u", "l", "l">>
Quote == "\""

RECURSIVE TrimLeft(_, _)
TrimLeft(b, cut) == IF b # <<>> /\ Head(b) \in cut THEN TrimLeft(Tail(b), cut) ELSE b
RECURSIVE TrimRight(_, _)
TrimRight(b, cut) == IF b # <<>> /\ b[Len(b)] \in cut
                     THEN TrimRight(SubSeq(b, 1, Len(b) - 1), cut) ELSE b
\* bytes.TrimSpace(b) and bytes.Trim(b, "\"")
TrimSpace(b) == TrimRight(TrimLeft(b, {" ", "\n", "\t", "\r"}), {" ", "\n", "\t", "\r"})
TrimQuotes(b) == TrimRight(TrimLeft(b, {Quote}), {Quote})

\* what an operation on the wrapper leaves: its T field and the error
TypeRet(kT, e) == [T |-> kT, err |-> e]

\* Type.MarshalJSON, part_000:36: the bytes (the error is always nil)
MarshalJSON(kT) ==
    IF kT = NoType THEN TextNull
    ELSE <<Quote>> \o ShortTypeName(kT) \o <<Quote>>

\* UnmarshalJSON looking the bytes up as they are, quotes included
UnmarshalJSON_NoTrim(kT, b) ==
    IF b = TextNull THEN TypeRet(NoType, "")
    ELSE IF TypesType(TrimSpace(b)) = NoType THEN TypeRet(kT, "name not found")
    ELSE TypeRet(TypesType(TrimSpace(b)), "")

\* Type.UnmarshalJSON, part_000:47
UnmarshalJSON(kT, b) ==
    IF b = TextNull THEN TypeRet(NoType, "")
    ELSE IF TypesType(TrimQuotes(TrimSpace(b))) = NoType
    THEN TypeRet(kT, "name not found")
    ELSE TypeRet(TypesType(TrimQuotes(TrimSpace(b))), "")

\* xml.Token: a start or end element with its name, character data with its
\* text, a comment, or the error d.Token() returns in place of a token
StartElement(name) == [t |-> "start", name |-> name, data |-> <<>>]
EndElement(name) == [t |-> "end", name |-> name, data |-> <<>>]
CharData(data) == [t |-> "chardata", name |-> "", data |-> data]
Comment == [t |-> "comment", name |-> "", data |-> <<>>]
TokenError == [t |-> "error", name |-> "", data |-> <<>>]

\* Type.MarshalXML, part_000:66: the tokens written and the error.
\* e.EncodeToken rejects a start element without a name; flushFails is the
\* writer failing in e.Flush.
MarshalXML(kT, start, flushFails) ==
    IF start = "" THEN [toks |-> <<>>, err |-> "start tag with no name"]
    ELSE IF flushFails THEN [toks |-> <<>>, err |-> "flush"]
    ELSE [toks |-> <<StartElement(start),
                     CharData(IF kT = NoType THEN TextNull ELSE ShortTypeName(kT)),
                     EndElement(start)>>,
          err |-> ""]

\* d.Token() failed: at the end of the input or on malformed XML
NoToken(d) == d = <<>> \/ Head(d).t = "error"

\* Type.UnmarshalXML lines 106-117: the token after the character data
UnmarshalXMLEnd(kT, d, start) ==
    IF NoToken(d) THEN TypeRet(kT, "token")
    ELSE IF Head(d).t = "end"
    THEN IF Head(d).name # start
         THEN TypeRet(kT, "EndElement does not match StartElement")
         ELSE TypeRet(kT, "")
    ELSE TypeRet(kT, "not expected EndElement")

\* Type.UnmarshalXML, part_000:88: d holds the tokens after the start element
UnmarshalXML(kT, d, start) ==
    IF NoToken(d) THEN TypeRet(kT, "token")
    ELSE IF Head(d).t = "chardata"
    THEN IF TrimSpace(Head(d).data) = TextNull
         THEN UnmarshalXMLEnd(NoType, Tail(d), start)
         ELSE IF TypesType(TrimSpace(Head(d).data)) = NoType
         THEN TypeRet(kT, "name not found")
         ELSE UnmarshalXMLEnd(TypesType(TrimSpace(Head(d).data)), Tail(d), start)
    ELSE TypeRet(kT, "not expected EndElement")

\* serialized forms given to the wrapper that it did not write itself
JSONInputs ==
    {TextNull, <<>>, <<Quote, Quote>>, <<" ">> \o TextNull,
     <<"k", ".", "A">>, <<Quote, "k", ".", "A", Quote>>,
     <<" ", Quote, "k", ".", "B", Quote, "\n">>, <<Quote, " ", "k", ".", "A", Quote>>,
     <<Quote, "m", ".", "U", Quote>>, <<Quote, "n", "u", "l", "l", Quote>>}

StartNames == {"Type", "T", ""}

XMLTexts == {TextNull, <<"k", ".", "A">>, <<" ", "k", ".", "B", "\n">>,
             <<"m", ".", "U">>, <<>>}

XMLInputs ==
    {<<>>, <<TokenError>>, <<Comment>>}
    \cup {<<EndElement(n)>> : n \in StartNames}
    \cup {<<CharData(x)>> : x \in XMLTexts}
    \cup {<<CharData(x), TokenError>> : x \in XMLTexts}
    \cup {<<CharData(x), Comment, EndElement("Type")>> : x \in XMLTexts}
    \cup {<<CharData(x[1]), EndElement(x[2])>> : x \in XMLTexts \X StartNames}

NoWire == [fmt |-> "", bytes |-> <<>>, toks |-> <<>>, from |-> NoType]

\* a program stores a descriptor in the wrapper: Type{T: t}
SetType ==
    \E t \in Descriptors \cup {NoType} :
        /\ k' = t
        /\ k0' = k
        /\ top' = "SetType"
        /\ err' = ""
        /\ rt' = FALSE
        /\ UNCHANGED <<wire, convVars>>

CallMarshalJSON ==
    /\ wire' = [fmt |-> "json", bytes |-> MarshalJSON(k), toks |-> <<>>, from |-> k]
    /\ top' = "MarshalJSON"
    /\ err' = ""
    /\ rt' = FALSE
    /\ k0' = k
    /\ UNCHANGED <<k, convVars>>

CallMarshalXML ==
    \E start \in StartNames, flushFails \in BOOLEAN :
        LET m == MarshalXML(k, start, flushFails)
        IN /\ wire' = IF m.err = ""
                      THEN [fmt |-> "xml", bytes |-> <<>>, toks |-> m.toks, from |-> k]
                      ELSE NoWire
           /\ top' = "MarshalXML"
           /\ err' = m.err
           /\ rt' = FALSE
           /\ k0' = k
           /\ UNCHANGED <<k, convVars>>

\* the wrapper reads b: what it wrote last (json.Unmarshal of the wire), or
\* bytes from elsewhere
UnmarshalledJSON(b, isWire) ==
    /\ k' = UnmarshalJSON(k, b).T
    /\ err' = UnmarshalJSON(k, b).err
    /\ k0' = k
    /\ top' = "UnmarshalJSON"
    /\ rt' = isWire
    /\ UNCHANGED <<wire, convVars>>

CallUnmarshalJSON ==
    \/ wire.fmt = "json" /\ UnmarshalledJSON(wire.bytes, TRUE)
    \/ \E b \in JSONInputs : UnmarshalledJSON(b, FALSE)

UnmarshalledXML(d, start, isWire) ==
    /\ k' = UnmarshalXML(k, d, start).T
    /\ err' = UnmarshalXML(k, d, start).err
    /\ k0' = k
    /\ top' = "UnmarshalXML"
    /\ rt' = isWire
    /\ UNCHANGED <<wire, convVars>>

\* xml.Unmarshal reads the start element and hands the rest to UnmarshalXML
CallUnmarshalXML ==
    \/ wire.fmt = "xml" /\ UnmarshalledXML(Tail(wire.toks), Head(wire.toks).name, TRUE)
    \/ \E d \in XMLInputs, start \in StartNames \ {""} : UnmarshalledXML(d, start, FALSE)

NextType ==
    \/ SetType
    \/ CallMarshalJSON
    \/ CallMarshalXML
    \/ CallUnmarshalJSON
    \/ CallUnmarshalXML

SpecType == Init /\ [][NextType]_vars

\* ------------------------------------------------------------------ claims
\* the nil/absent inputs: the untyped nil, a nil pointer, or a nil map,
\* slice, func or chan
NilInput(v) ==
    \/ v.kind = "Invalid" /\ v.ptr = 0
    \/ v.ptr > 0 /\ v.nilAt = 1
    \/ v.ptr = 0 /\ v.kind \in NilableKinds /\ v.isnil

\* a destination that is a variable reached through non-nil pointers
Settable(v) == v.ptr >= 1 /\ v.nilAt = 0

TextTrue == <<"t", "r", "u", "e">>
TextFalse == <<"f", "a", "l", "s", "e">>
TextNil == <<"n", "i", "l">>

\* C1: on every nil/absent input ToBool returns (false, false) and ToInt,
\* ToFloat and ToFloat32 return (0, false).
C1_NilInputFails ==
    op \in {"ToBool", "ToInt", "ToFloat", "ToFloat32"} /\ NilInput(it)
        => ~res.panic /\ ~res.ok /\ ~res.b /\ res.n = 0

\* C2: on every nil/absent input ToString and ToStringPrec return "nil".
C2_NilInputIsNilText ==
    op \in {"ToString", "ToStringPrec"} /\ NilInput(it)
        => ~res.panic /\ res.s = TextNil

C4_SetRobustReturns ==
    op = "SetRobust" /\ Settable(to) => ~out.panic

\* C5 as stated: SetRobust into a complex destination never succeeds, whatever
\* the source, and leaves the destination unchanged.
C5_ComplexNeverSet ==
    op = "SetRobust" /\ Settable(to) /\ to.kind \in ComplexKinds
        => ~out.ret /\ out.cell = to

\* C5 amended: SetRobust into a complex destination converts nothing; it
\* returns true exactly for a source of the destination's own type, which the
\* destination then holds; for any other source it does not return true and
\* the destination is unchanged.
C5_ComplexSetByAssignOnly ==
    op = "SetRobust" /\ Settable(to) /\ to.kind \in ComplexKinds
        => IF it.ptr = 0 /\ it.kind = to.kind /\ it.named = to.named
           THEN /\ out.ret /\ ~out.panic
                /\ out.cell = [to EXCEPT !.n = it.n, !.im = it.im]
           ELSE ~out.ret /\ out.cell = to

\* C5 witness: a complex128 variable set from a complex128 value
C5_Witness ==
    /\ op = "SetRobust" /\ Settable(to) /\ to.kind = "Complex128" /\ ~to.named
    /\ it.kind = "Complex128" /\ it.ptr = 0 /\ ~it.named /\ it.n # to.n
    /\ out.ret /\ out.cell.n = it.n

\* a value of an integer kind of 8 to 64 bits, of a type without methods
IntValue(v) ==
    /\ v.kind \in (SignedKinds \cup UnsignedKinds) \ {"Uintptr"}
    /\ v.ptr = 0 /\ v.caps = {}
BoolValue(v) == v.kind = "Bool" /\ v.ptr = 0 /\ v.caps = {}

\* C6 as stated: ToBool(ToString(b)) = (b, true) for every boolean b and
\* ToInt(ToString(v)) = (v, true) for every integer v, uint64 values above
\* the signed 64-bit maximum included.
C6_RoundTrip ==
    /\ op = "ToBool" /\ via = "ToString" /\ BoolValue(src) => res = RetBool(src.b, TRUE)
    /\ op = "ToInt" /\ via = "ToString" /\ IntValue(src) => res = RetNum(src.n, TRUE)

\* C6 amended: ToBool(ToString(b)) = (b, true) for every boolean b;
\* ToInt(ToString(v)) = (v, true) for every integer v up to the signed 64-bit
\* maximum, and (0, false) for the unsigned values above it.
C6_RoundTripInRange ==
    /\ op = "ToBool" /\ via = "ToString" /\ BoolValue(src) => res = RetBool(src.b, TRUE)
    /\ op = "ToInt" /\ via = "ToString" /\ IntValue(src)
         => res = IF src.n <= MaxInt64 THEN RetNum(src.n, TRUE) ELSE RetNum(0, FALSE)

\* C6 witness: the largest uint64 formatted by ToString and given to ToInt
C6_Witness ==
    /\ op = "ToInt" /\ via = "ToString" /\ IntValue(src)
    /\ src.kind = "Uint64" /\ src.n = MaxUint64 /\ it.s = FormatUint(MaxUint64)
    /\ ~res.ok

\* the inputs C8 lists: those whose value is not a float or a complex
NotFloating(v) == v.kind \notin FloatKinds \cup ComplexKinds

\* C8: for every input that is not of a float or complex kind and every
\* precision, ToStringPrec returns what ToString returns.
C8_PrecLikeToString ==
    op = "ToStringPrec" /\ NotFloating(it) => res = ToString(it)

\* C9: KindIsBasic is true exactly for the bool, integer, float, complex and
\* string kinds.
C9_BasicKinds ==
    op = "KindIsBasic"
        => (res.b <=> vk \in {"Bool", "String"} \cup SignedKinds \cup UnsignedKinds
                             \cup FloatKinds \cup ComplexKinds)

\* a string input with a text: a string by value, behind non-nil pointers,
\* or of a defined string type
StringInput(v) == v.kind = "String" /\ v.nilAt = 0

\* C10 as stated: ToBool on a string succeeds for "true" and "false" only.
C10_OnlyTrueFalse ==
    op = "ToBool" /\ StringInput(it)
        => res = IF it.s = TextTrue THEN RetBool(TRUE, TRUE)
                 ELSE IF it.s = TextFalse THEN RetBool(FALSE, TRUE)
                 ELSE RetBool(FALSE, FALSE)

\* C10 amended: ToBool on a string succeeds exactly for the literals of
\* strconv.ParseBool: 1, t, T, TRUE, true, True give (true, true); 0, f, F,
\* FALSE, false, False give (false, true); any other text gives (false, false).
C10_ParseBoolLiterals ==
    op = "ToBool" /\ StringInput(it)
        => res = IF it.s \in {<<"1">>, <<"t">>, <<"T">>, <<"T", "R", "U", "E">>,
                              TextTrue, <<"T", "r", "u", "e">>}
                 THEN RetBool(TRUE, TRUE)
                 ELSE IF it.s \in {<<"0">>, <<"f">>, <<"F">>, <<"F", "A", "L", "S", "E">>,
                                   TextFalse, <<"F", "a", "l", "s", "e">>}
                 THEN RetBool(FALSE, TRUE)
                 ELSE RetBool(FALSE, FALSE)

\* C10 witness: the one-letter literal T behind a pointer converts to true
C10_Witness ==
    /\ op = "ToBool" /\ StringInput(it) /\ it.ptr = 1 /\ it.s = <<"T">>
    /\ res.b /\ res.ok

\* C7: the Type wrapper round-trips through JSON and through XML: what it
\* wrote for an absent descriptor reads back as absent, what it wrote for a
\* registered descriptor reads back as that descriptor, and a name that is
\* not in the registry is answered with an error.
C7_TypeRoundTrip ==
    top \in {"UnmarshalJSON", "UnmarshalXML"} /\ rt
        => IF wire.from \in Registered \cup {NoType}
           THEN err = "" /\ k = wire.from
           ELSE err # "" /\ k = k0

\* C7 witness: a wrapper holding B reads the XML written for A
C7_Witness ==
    /\ top = "UnmarshalXML" /\ rt /\ wire.from = "A" /\ k0 = "B"
    /\ k = "A" /\ err = ""

\* the capability part of C11, for every input (nilToo) or for the inputs
\* that are not nil/absent: an input
\* that implements the capability a conversion looks for gets the value the
\* capability reports, with success (narrowed to 32 bits by ToFloat32)
ProbeFirst(nilToo) ==
    /\ op = "ToInt" /\ "Inter" \in it.caps /\ (nilToo \/ ~NilInput(it))
         => res = RetNum(it.capI, TRUE)
    /\ op = "ToFloat" /\ "Floater" \in it.caps /\ (nilToo \/ ~NilInput(it))
         => res = RetNum(it.capF, TRUE)
    /\ op = "ToFloat32" /\ "Floater" \in it.caps /\ (nilToo \/ ~NilInput(it))
         => res = RetNum(Float32Of(it.capF), TRUE)
    /\ op \in {"ToString", "ToStringPrec"} /\ "Stringer" \in it.caps /\ (nilToo \/ ~NilInput(it))
         => res = RetStr(it.capS)

\* an input without the capability goes by its underlying kind, and so does
\* an input of ToBool that implements Booler: a struct or a map fails, a
\* defined integer type converts its own value
ReflectLast ==
    /\ op = "ToBool" /\ "Booler" \in it.caps /\ it.kind \in {"Struct", "Map"}
         => res = RetBool(FALSE, FALSE)
    /\ op = "ToBool" /\ "Booler" \in it.caps /\ it.kind = "Int" /\ ~NilInput(it)
         => res = RetBool(it.n # 0, TRUE)
    /\ op = "ToInt" /\ it.named /\ "Inter" \notin it.caps /\ ~NilInput(it)
         /\ it.kind = "Int"
         => res = RetNum(it.n, TRUE)
    /\ op = "ToFloat" /\ it.named /\ "Floater" \notin it.caps /\ ~NilInput(it)
         /\ it.kind = "Int"
         => res = RetNum(FloatOfInt(it.n), TRUE)
    /\ op \in {"ToString", "ToStringPrec"} /\ it.named /\ "Stringer" \notin it.caps
         /\ ~NilInput(it) /\ it.kind = "Int"
         => res = RetStr(FormatInt(it.n))

C12_IntegerNarrowing ==
    op = "SetRobust" /\ Settable(to) /\ to.kind \in SignedKinds \cup UnsignedKinds
    /\ ~ToInt(it).panic /\ ToInt(it).ok
        => /\ out.ret /\ ~out.panic
           /\ out.cell = [to EXCEPT !.n = out.cell.n]
           /\ (out.cell.n - ToInt(it).n) % Pow(2, Bits(to.kind)) = 0
           /\ out.cell.n >= MinOf(to.kind) /\ out.cell.n <= MaxOf(to.kind)

\* the kinds C13 is about
ScalarKinds ==
    {"Bool", "String"} \cup SignedKinds \cup UnsignedKinds \cup FloatKinds
    \cup ComplexKinds

\* the destination holding the source converted to the destination's type:
\* ToInt narrowed to an integer kind, ToBool, ToFloat (rounded for float32),
\* ToString, and the source itself for a complex or uintptr destination
Converted(dst, frm) ==
    CASE dst.kind = "Uintptr" -> [dst EXCEPT !.n = frm.n]
      [] dst.kind \in SignedKinds \cup UnsignedKinds ->
           [dst EXCEPT !.n = Narrow(ToInt(frm).n, dst.kind)]
      [] dst.kind = "Bool" -> [dst EXCEPT !.b = ToBool(frm).b]
      [] dst.kind = "Float64" -> [dst EXCEPT !.n = ToFloat(frm).n]
      [] dst.kind = "Float32" -> [dst EXCEPT !.n = Float32Of(ToFloat(frm).n)]
      [] dst.kind = "String" -> [dst EXCEPT !.s = ToString(frm).s]
      [] OTHER -> [dst EXCEPT !.n = frm.n, !.im = frm.im]

\* C13: SetRobust into a settable destination of bool, integer, unsigned,
\* float, complex or string kind changes the destination only on success:
\* unless it returns true the destination is as before the call, and when it
\* returns true the destination holds the source converted to its type.
C13_ChangedOnlyOnSuccess ==
    op = "SetRobust" /\ Settable(to) /\ to.kind \in ScalarKinds
        => IF out.ret THEN ~out.panic /\ out.cell = Converted(to, it)
           ELSE out.cell = to

\* C13 witness: an int variable keeps its value when the source is a text
\* that is no number
C13_Witness ==
    /\ op = "SetRobust" /\ Settable(to) /\ to.kind = "Int" /\ to.n = 1
    /\ it.kind = "String" /\ it.ptr = 0 /\ it.s = <<"a", "b", "c">>
    /\ ~out.ret /\ ~out.panic /\ out.cell.n = 1

\* C14: whenever UnmarshalJSON or UnmarshalXML returns an error, the wrapper
\* holds the descriptor it held before the call.
C14_AllOrNothing ==
    top \in {"UnmarshalJSON", "UnmarshalXML"} /\ err # "" => k = k0
====
